---- MODULE Spec2Model ----
(***************************************************************************)
(* Model of the chaos-injection layer of rpa-chaos-testing-tool:           *)
(*   chaos/experiments.py  ChaosContext, RandomDelay, ModalOverlay,        *)
(*                         NetworkChaos                                    *)
(*   chaos/controller.py   ChaosController                                 *)
(*   chaos/page_proxy.py   PageProxy                                       *)
(*   chaos/locator_proxy.py LocatorProxy                                   *)
(*   chaos/runner.py       the wiring done by run_once                     *)
(*                                                                         *)
(* One run is modelled: a controller is constructed over a list of         *)
(* experiments and a seed, on_start is called, and the bot then calls      *)
(* operations on the page proxy and on the locators it obtains from it.    *)
(* Everything outside the repository (the browser page, the CDP session,   *)
(* the real Playwright operations) is an input of the action that uses it: *)
(* each call into it either returns or raises.                             *)
(***************************************************************************)
EXTENDS Integers, Sequences, FiniteSets, TLC

(***************************************************************************)
(* Bounds of the model.                                                    *)
(***************************************************************************)
\* Number of terminal operations (goto/click/fill/type/press) the bot performs
\* in a run over any of the experiment lists.
MaxActions == 2
\* The same, in a run over one of the single-experiment scenario lists.
MaxScenarioActions == 3
\* Longest chain of locator queries the bot builds from the page.
MaxChain == 2
\* Seeds range over 0..MaxSeed.
MaxSeed == 1
\* Resolution of the random stream: random() yields k/RngModulus, k in 0..RngModulus-1.
RngModulus == 16

Seeds == 0..MaxSeed

(***************************************************************************)
(* random.Random: a deterministic stream.  The generator is abstracted to  *)
(* a congruential step on a state in 0..RngModulus-1; what the model keeps *)
(* of it is that every value is a function of the seed and of the number   *)
(* of draws made so far.                                                   *)
(***************************************************************************)
SeedState(seed) == seed % RngModulus

RngNext(s) == (5 * s + 3) % RngModulus

\* A stream that does not advance: every draw yields the same value.
Draw_Stuck(w) == [w EXCEPT !.draws = @ + 1]

\* ctx.rng.random(): advance the stream; the value drawn is the new state k,
\* standing for the float k/RngModulus in [0, 1).
Draw(w) == [w EXCEPT !.rng = RngNext(@), !.draws = @ + 1]

\* r <= p for r = k/RngModulus and a probability given in percent.
AtMost(k, pct) == k * 100 <= pct * RngModulus

\* rng.uniform(a, b) = a + (b - a) * random(), on microseconds.
Uniform(a, b, k) == a + ((b - a) * k) \div RngModulus

\* rng.randint(a, b): an integer of a..b determined by the stream.
RandInt(a, b, k) == a + (k * (b - a + 1)) \div RngModulus

\* round(d, 3) of a duration in seconds, d given in microseconds and the
\* result in milliseconds (round half to even, as Python's round).
Round3(d) ==
    LET q == d \div 1000
        m == d % 1000
    IN  IF m > 500 \/ (m = 500 /\ q % 2 = 1) THEN q + 1 ELSE q

(***************************************************************************)
(* The experiments, as the records their constructors build.               *)
(* Probabilities are in percent, min_s/max_s in microseconds.              *)
(***************************************************************************)
RandomDelay(min_s, max_s, probability) ==
    [name |-> "random_delay", min_s |-> min_s, max_s |-> max_s, p |-> probability]

ModalOverlay(probability, min_ms, max_ms) ==
    [name |-> "modal_overlay", p |-> probability, min_ms |-> min_ms, max_ms |-> max_ms]

NetworkChaos(throttle_probability, offline_probability) ==
    [name |-> "network_chaos",
     tp |-> throttle_probability, op |-> offline_probability,
     lat_min |-> 300, lat_max |-> 1200,
     down_min |-> 200, down_max |-> 1500,
     up_min |-> 100, up_max |-> 800,
     off_min |-> 800, off_max |-> 2500]

\* The list run_once wires, and the lists of the spec's test scenarios.
RunnerExperiments ==
    << RandomDelay(50000, 600000, 100),
       ModalOverlay(25, 700, 2200),
       NetworkChaos(25, 10) >>

ExperimentLists ==
    { RunnerExperiments,
      << RandomDelay(0, 0, 100) >>,
      << ModalOverlay(100, 800, 2500) >>,
      << NetworkChaos(0, 100) >>,
      << NetworkChaos(50, 50), RandomDelay(0, 0, 100) >>,
      << ModalOverlay(100, 800, 2500), NetworkChaos(50, 50) >> }

(***************************************************************************)
(* The world an experiment hook acts on, threaded through the hooks:       *)
(*   rng, draws, events   the ChaosContext (stream state, number of draws  *)
(*                        made, event log)                                 *)
(*   cdp                  per experiment, whether its _cdp is not None     *)
(*   net                  the network condition in force in the browser    *)
(*   overlay              duration of the last overlay injected, 0 if none *)
(*   calls                what the current operation has called so far     *)
(*   exc                  the exception propagating, "none" if none        *)
(***************************************************************************)
NormalNet == [offline |-> FALSE, latency |-> 0, down |-> -1, up |-> -1]

OfflineNet == [offline |-> TRUE, latency |-> 0, down |-> -1, up |-> -1]

Call(w, c) == [w EXCEPT !.calls = Append(@, c)]

Raise(w, e) == [w EXCEPT !.exc = e]

\* An emit that drops an event equal to one already in the log.
emit_Dedup(w, ev) ==
    IF \E n \in 1..Len(w.events) : w.events[n] = ev THEN w
    ELSE [w EXCEPT !.events = Append(@, ev)]

\* ChaosContext.emit
emit(w, ev) == [w EXCEPT !.events = Append(@, ev)]

\* self._cdp.send("Network.emulateNetworkConditions", cond): the condition
\* takes effect when the send succeeds; a failed send raises.
CdpSend(w, what, cond, ok) ==
    LET w1 == Call(w, [op |-> "cdp_send", what |-> what, cond |-> cond, ok |-> ok])
    IN  IF ok THEN [w1 EXCEPT !.net = cond] ELSE w1

Actions == {"goto", "click", "fill", "type", "press"}


\* time.sleep(d): returns after d, unless the wait is interrupted (ok = FALSE),
\* in which case the interrupt propagates from the call.
Sleep(w, d, ok) ==
    LET w1 == Call(w, [op |-> "sleep", d |-> d, ok |-> ok])
    IN  IF ok THEN w1 ELSE Raise(w1, "KeyboardInterrupt")

(***************************************************************************)
(* Experiment hooks.  e is the experiment, i its index in the controller's *)
(* list, env the outcomes of the external calls the hook may make.         *)
(***************************************************************************)
\* Experiment.on_start / RandomDelay.on_start / ModalOverlay.on_start
Experiment_on_start(w, e, i, env) == w

\* An after_action that records an event.
Experiment_after_action_Emits(w, e, i, action, env) ==
    emit(w, [kind |-> e.name, action |-> action, phase |-> "after"])

\* Experiment.after_action, inherited by all three experiments
Experiment_after_action(w, e, i, action, env) == w

\* RandomDelay.before_action acting on clicks only.
RandomDelay_before_action_ClickOnly(w, e, i, action, env) ==
    IF action # "click" THEN w
    ELSE LET w1 == Draw(w)
         IN  IF AtMost(w1.rng, e.p)
             THEN LET w2 == Draw(w1)
                      d  == Uniform(e.min_s, e.max_s, w2.rng)
                      w3 == emit(w2, [kind |-> e.name, action |-> action,
                                      delay_s |-> Round3(d)])
                  IN  Sleep(w3, d, env.sleep)
             ELSE w1

RandomDelay_before_action(w, e, i, action, env) ==
    LET w1 == Draw(w)
    IN  IF AtMost(w1.rng, e.p)
        THEN LET w2 == Draw(w1)
                 d  == Uniform(e.min_s, e.max_s, w2.rng)
                 w3 == emit(w2, [kind |-> e.name, action |-> action,
                                 delay_s |-> Round3(d)])
             IN  Sleep(w3, d, env.sleep)
        ELSE w1

\* page.evaluate(js, dur_ms) inside try/except Exception: a failure is dropped.
Evaluate(w, dur_ms, ok) ==
    LET w1 == Call(w, [op |-> "evaluate", arg |-> dur_ms, ok |-> ok])
    IN  IF ok THEN [w1 EXCEPT !.overlay = dur_ms] ELSE w1

\* ModalOverlay.before_action without its filter on the action kind.
ModalOverlay_before_action_AnyAction(w, e, i, action, env) ==
    LET w1 == Draw(w)
    IN  IF ~AtMost(w1.rng, e.p) THEN w1
        ELSE LET w2     == Draw(w1)
                 dur_ms == RandInt(e.min_ms, e.max_ms, w2.rng)
                 w3     == emit(w2, [kind |-> e.name, action |-> action,
                                     duration_ms |-> dur_ms])
             IN  Evaluate(w3, dur_ms, env.evaluate)

ModalOverlay_before_action(w, e, i, action, env) ==
    IF action \notin {"click", "fill", "type", "press"} THEN w
    ELSE LET w1 == Draw(w)
         IN  IF ~AtMost(w1.rng, e.p) THEN w1
             ELSE LET w2     == Draw(w1)
                      dur_ms == RandInt(e.min_ms, e.max_ms, w2.rng)
                      w3     == emit(w2, [kind |-> e.name, action |-> action,
                                          duration_ms |-> dur_ms])
                  IN  Evaluate(w3, dur_ms, env.evaluate)

\* browser_context.new_cdp_session(page), then send("Network.enable"); either
\* failing leaves _cdp None.
\* NetworkChaos.on_start keeping the session when Network.enable fails.
NetworkChaos_on_start_KeepsSession(w, e, i, env) ==
    LET w1 == Call(w, [op |-> "new_cdp_session", ok |-> env.new_cdp_session])
    IN  IF ~env.new_cdp_session THEN [w1 EXCEPT !.cdp[i] = FALSE]
        ELSE LET w2 == Call(w1, [op |-> "cdp_send", what |-> "Network.enable",
                                 ok |-> env.enable])
             IN  [w2 EXCEPT !.cdp[i] = TRUE]

NetworkChaos_on_start(w, e, i, env) ==
    LET w1 == Call(w, [op |-> "new_cdp_session", ok |-> env.new_cdp_session])
    IN  IF ~env.new_cdp_session THEN [w1 EXCEPT !.cdp[i] = FALSE]
        ELSE LET w2 == Call(w1, [op |-> "cdp_send", what |-> "Network.enable",
                                 ok |-> env.enable])
             IN  [w2 EXCEPT !.cdp[i] = env.enable]

\* The offline burst ending with the condition that was in force before it.
OfflineBurst_RestoresPrevious(w, off_ms, env) ==
    LET w1 == CdpSend(w, "offline", OfflineNet, env.offline)
        w2 == IF ~env.offline THEN Raise(w1, "CdpError")
              ELSE Sleep(w1, off_ms * 1000, env.sleep)
    IN  CdpSend(w2, "restore", w.net, env.restore)

\* The offline burst restoring only after a wait that completed.
OfflineBurst_NoFinally(w, off_ms, env) ==
    LET w1 == CdpSend(w, "offline", OfflineNet, env.offline)
    IN  IF ~env.offline THEN Raise(w1, "CdpError")
        ELSE LET w2 == Sleep(w1, off_ms * 1000, env.sleep)
             IN  IF w2.exc # "none" THEN w2
                 ELSE CdpSend(w2, "restore", NormalNet, env.restore)

\* The offline burst: try: send(offline); sleep  finally: try: send(normal)
\* except: pass.  The outer try has no except clause.
OfflineBurst(w, off_ms, env) ==
    LET w1 == CdpSend(w, "offline", OfflineNet, env.offline)
        w2 == IF ~env.offline THEN Raise(w1, "CdpError")
              ELSE Sleep(w1, off_ms * 1000, env.sleep)
    IN  CdpSend(w2, "restore", NormalNet, env.restore)

\* The conversion with a kilobit taken as 1000 bits.
KbpsToBps_Decimal(kbps) == (kbps * 1000) \div 8

\* int((kbps * 1024) / 8): kilobits per second to bytes per second.
KbpsToBps(kbps) == (kbps * 1024) \div 8

\* The throttle: try: send(throttled) except Exception: pass.
Throttle(w, latency, down_kbps, up_kbps, env) ==
    LET down_bps == KbpsToBps(down_kbps)
        up_bps   == KbpsToBps(up_kbps)
    IN  CdpSend(w, "throttle",
                [offline |-> FALSE, latency |-> latency,
                 down |-> down_bps, up |-> up_bps],
                env.throttle)

\* NetworkChaos.before_action drawing r before it tests the action kind.
NetworkChaos_before_action_DrawsFirst(w, e, i, action, env) ==
    IF ~w.cdp[i] THEN w
    ELSE LET w1 == Draw(w)
             r  == w1.rng
         IN  IF action \notin {"goto", "click"} THEN w1
             ELSE IF AtMost(r, e.op)
             THEN LET w2     == Draw(w1)
                      off_ms == RandInt(e.off_min, e.off_max, w2.rng)
                      w3     == emit(w2, [kind |-> e.name, mode |-> "offline_burst",
                                          duration_ms |-> off_ms, action |-> action])
                  IN  OfflineBurst(w3, off_ms, env)
             ELSE IF AtMost(r, e.op + e.tp)
             THEN LET w2 == Draw(w1)
                      latency == RandInt(e.lat_min, e.lat_max, w2.rng)
                      w3 == Draw(w2)
                      down_kbps == RandInt(e.down_min, e.down_max, w3.rng)
                      w4 == Draw(w3)
                      up_kbps == RandInt(e.up_min, e.up_max, w4.rng)
                      w5 == emit(w4, [kind |-> e.name, mode |-> "throttle",
                                      latency_ms |-> latency,
                                      down_kbps |-> down_kbps,
                                      up_kbps |-> up_kbps, action |-> action])
                  IN  Throttle(w5, latency, down_kbps, up_kbps, env)
             ELSE w1

\* NetworkChaos.before_action testing the throttle threshold before the
\* offline threshold.
NetworkChaos_before_action_ThrottleFirst(w, e, i, action, env) ==
    IF ~w.cdp[i] THEN w
    ELSE IF action \notin {"goto", "click"} THEN w
    ELSE LET w1 == Draw(w)
             r  == w1.rng
         IN  IF AtMost(r, e.op + e.tp)
             THEN LET w2 == Draw(w1)
                      latency == RandInt(e.lat_min, e.lat_max, w2.rng)
                      w3 == Draw(w2)
                      down_kbps == RandInt(e.down_min, e.down_max, w3.rng)
                      w4 == Draw(w3)
                      up_kbps == RandInt(e.up_min, e.up_max, w4.rng)
                      w5 == emit(w4, [kind |-> e.name, mode |-> "throttle",
                                      latency_ms |-> latency,
                                      down_kbps |-> down_kbps,
                                      up_kbps |-> up_kbps, action |-> action])
                  IN  Throttle(w5, latency, down_kbps, up_kbps, env)
             ELSE IF AtMost(r, e.op)
             THEN LET w2     == Draw(w1)
                      off_ms == RandInt(e.off_min, e.off_max, w2.rng)
                      w3     == emit(w2, [kind |-> e.name, mode |-> "offline_burst",
                                          duration_ms |-> off_ms, action |-> action])
                  IN  OfflineBurst(w3, off_ms, env)
             ELSE w1

NetworkChaos_before_action(w, e, i, action, env) ==
    IF ~w.cdp[i] THEN w
    ELSE IF action \notin {"goto", "click"} THEN w
    ELSE LET w1 == Draw(w)
             r  == w1.rng
         IN  IF AtMost(r, e.op)
             THEN LET w2     == Draw(w1)
                      off_ms == RandInt(e.off_min, e.off_max, w2.rng)
                      w3     == emit(w2, [kind |-> e.name, mode |-> "offline_burst",
                                          duration_ms |-> off_ms, action |-> action])
                  IN  OfflineBurst(w3, off_ms, env)
             ELSE IF AtMost(r, e.op + e.tp)
             THEN LET w2 == Draw(w1)
                      latency == RandInt(e.lat_min, e.lat_max, w2.rng)
                      w3 == Draw(w2)
                      down_kbps == RandInt(e.down_min, e.down_max, w3.rng)
                      w4 == Draw(w3)
                      up_kbps == RandInt(e.up_min, e.up_max, w4.rng)
                      w5 == emit(w4, [kind |-> e.name, mode |-> "throttle",
                                      latency_ms |-> latency,
                                      down_kbps |-> down_kbps,
                                      up_kbps |-> up_kbps, action |-> action])
                  IN  Throttle(w5, latency, down_kbps, up_kbps, env)
             ELSE w1

\* Method dispatch on the experiment's class.
on_start(w, e, i, env) ==
    IF e.name = "network_chaos" THEN NetworkChaos_on_start(w, e, i, env)
    ELSE Experiment_on_start(w, e, i, env)

before_action(w, e, i, action, env) ==
    CASE e.name = "random_delay"  -> RandomDelay_before_action(w, e, i, action, env)
      [] e.name = "modal_overlay" -> ModalOverlay_before_action(w, e, i, action, env)
      [] e.name = "network_chaos" -> NetworkChaos_before_action(w, e, i, action, env)

after_action(w, e, i, action, env) == Experiment_after_action(w, e, i, action, env)

(***************************************************************************)
(* ChaosController: each hook is a for loop over the experiments in list   *)
(* order; an exception raised by one experiment ends the loop.  Entry to   *)
(* and exit from each experiment's hook are noted in calls, with the       *)
(* stream state and position and the log length at that moment.                          *)
(***************************************************************************)
Enter(w, hook, i, action, args) ==
    Call(w, [op |-> "enter", hook |-> hook, exp |-> i, action |-> action,
             args |-> args, rng |-> w.rng, draws |-> w.draws,
             nevents |-> Len(w.events)])

Exit(w, hook, i) ==
    Call(w, [op |-> "exit", hook |-> hook, exp |-> i, draws |-> w.draws,
             nevents |-> Len(w.events), exc |-> w.exc])

RECURSIVE OnStartFrom(_, _, _, _)
OnStartFrom(w, exps, i, env) ==
    IF i > Len(exps) \/ w.exc # "none" THEN w
    ELSE OnStartFrom(
            Exit(on_start(Enter(w, "on_start", i, "-", "-"), exps[i], i, env),
                 "on_start", i),
            exps, i + 1, env)

ChaosController_on_start(w, exps, env) == OnStartFrom(w, exps, 1, env)

RECURSIVE BeforeFrom(_, _, _, _, _, _)
BeforeFrom(w, exps, i, action, args, env) ==
    IF i > Len(exps) \/ w.exc # "none" THEN w
    ELSE BeforeFrom(
            Exit(before_action(Enter(w, "before_action", i, action, args),
                               exps[i], i, action, env),
                 "before_action", i),
            exps, i + 1, action, args, env)

ChaosController_before_action(w, exps, action, args, env) ==
    BeforeFrom(w, exps, 1, action, args, env)

RECURSIVE AfterFrom(_, _, _, _, _, _)
AfterFrom(w, exps, i, action, args, env) ==
    IF i > Len(exps) \/ w.exc # "none" THEN w
    ELSE AfterFrom(
            Exit(after_action(Enter(w, "after_action", i, action, args),
                              exps[i], i, action, env),
                 "after_action", i),
            exps, i + 1, action, args, env)

ChaosController_after_action(w, exps, action, args, env) ==
    AfterFrom(w, exps, 1, action, args, env)

(***************************************************************************)
(* The proxies.  A proxy holds the two hook callables it was given; in     *)
(* run_once they are the lambdas that call controller.before_action and    *)
(* controller.after_action with the real page.                             *)
(***************************************************************************)
CallHook(hook, w, exps, action, args, env) ==
    CASE hook = "before_action" -> ChaosController_before_action(w, exps, action, args, env)
      [] hook = "after_action"  -> ChaosController_after_action(w, exps, action, args, env)

\* The real operation of the wrapped handle: it returns a value or raises.
RealCall(w, target, action, args, out) ==
    LET w1 == Call(w, [op |-> "real", target |-> target, action |-> action,
                       args |-> args, out |-> out])
    IN  IF out.outcome = "raise" THEN Raise(w1, out.value)
        ELSE [w1 EXCEPT !.ret = out.value]

\* The intercepted operation with the after-hook called after the delegated
\* call instead of in a finally clause.
Intercepted_NoFinally(w, h, target, exps, action, args, env) ==
    LET w0 == Call(w, [op |-> "before_hook", action |-> action, args |-> args])
        w1 == CallHook(h.before, w0, exps, action, args, env)
    IN  IF w1.exc # "none" THEN w1
        ELSE LET w2 == RealCall(w1, target, action, args, env.real)
             IN  IF w2.exc # "none" THEN w2
                 ELSE CallHook(h.after,
                               Call(w2, [op |-> "after_hook", action |-> action,
                                         args |-> args]),
                               exps, action, args, env)

\* The intercepted operation with the before-hook called inside the try:
\* the after-hook runs when the before-hook raises.
Intercepted_BeforeInTry(w, h, target, exps, action, args, env) ==
    LET w0 == Call(w, [op |-> "before_hook", action |-> action, args |-> args])
        w1 == CallHook(h.before, w0, exps, action, args, env)
        w2 == IF w1.exc # "none" THEN w1
              ELSE RealCall(w1, target, action, args, env.real)
        w3 == Call([w2 EXCEPT !.exc = "none"],
                   [op |-> "after_hook", action |-> action, args |-> args])
        w4 == CallHook(h.after, w3, exps, action, args, env)
    IN  IF w4.exc # "none" THEN w4 ELSE [w4 EXCEPT !.exc = w2.exc]

\* PageProxy.goto/click/fill/type/press and LocatorProxy.click/fill/type/press:
\*     self._before(action, args, kwargs)
\*     try: return self._page.<action>(*args, **kwargs)
\*     finally: self._after(action, args, kwargs)
Intercepted(w, h, target, exps, action, args, env) ==
    LET w0 == Call(w, [op |-> "before_hook", action |-> action, args |-> args])
        w1 == CallHook(h.before, w0, exps, action, args, env)
    IN  IF w1.exc # "none" THEN w1
        ELSE LET w2 == RealCall(w1, target, action, args, env.real)
                 w3 == Call([w2 EXCEPT !.exc = "none"],
                            [op |-> "after_hook", action |-> action, args |-> args])
                 w4 == CallHook(h.after, w3, exps, action, args, env)
             IN  IF w4.exc # "none" THEN w4 ELSE [w4 EXCEPT !.exc = w2.exc]

\* What the caller of an operation observes.
Outcome(w) ==
    IF w.exc # "none" THEN [outcome |-> "raise", value |-> w.exc]
    ELSE [outcome |-> "return", value |-> w.ret]

\* PageProxy(page, before_hook, after_hook) as run_once builds it.
PageProxy(before_hook, after_hook) ==
    [type |-> "PageProxy", before |-> before_hook, after |-> after_hook]

\* LocatorProxy(loc, before_hook, after_hook); depth is the number of queries
\* that led to the wrapped locator, listed whether all of them were among
\* locator / get_by_role / get_by_text / get_by_label.
LocatorProxy(depth, listed, before_hook, after_hook) ==
    [type |-> "LocatorProxy", depth |-> depth, listed |-> listed,
     before |-> before_hook, after |-> after_hook]

\* A Playwright Locator handed out unwrapped.
Locator(depth, listed) == [type |-> "Locator", depth |-> depth, listed |-> listed]

NoHandle == [type |-> "none"]

\* PageProxy.locator / get_by_role / get_by_text / get_by_label
PageProxy_query(h) == LocatorProxy(1, TRUE, h.before, h.after)

ListedQueries == {"locator", "get_by_role", "get_by_text", "get_by_label"}

\* Locator-returning attributes reached only through __getattr__ on the page proxy.
OtherQueries == {"get_by_placeholder"}

\* The queries the bot makes on a locator.
LocatorQueries == {"locator", "get_by_role", "get_by_placeholder"}

\* PageProxy.__getattr__(name): getattr(self._page, name); calling the bound
\* method of the real page returns the real page's locator.
PageProxy_getattr(h, name) == Locator(1, FALSE)

\* LocatorProxy.__getattr__(name): getattr(self._loc, name); calling the bound
\* method of the real locator returns the real locator's result.
LocatorProxy_getattr(h, name) == Locator(h.depth + 1, h.listed /\ name \in ListedQueries)

(***************************************************************************)
(* State.                                                                  *)
(***************************************************************************)
VARIABLES
    experiments,  \* ChaosController.experiments
    seed,         \* the seed the controller was built with
    ctx,          \* ChaosController.ctx: [rng, draws, events]
    cdp,          \* cdp[i]: experiment i holds a CDP session (_cdp is not None)
    net,          \* network condition in force in the browser
    overlay,      \* duration of the last overlay injected into the page
    pc,           \* "constructed" before controller.on_start, "started" after
    chaos_page,   \* the PageProxy run_once hands to the bot
    cur,          \* the locator the bot's current expression has reached
    invoked,      \* the last operation the bot called, and the state it was called in
    calls,        \* what that operation called, in order
    result,       \* what the bot observed from it
    acts,         \* the operations called so far and the kind of handle of each
    budget,       \* how many operations the bot performs in this run
    twin,         \* a second run of the same controller configuration
    batch         \* run_cmd: the batch the run belongs to, [runs |-> 0] if none

vars == << experiments, seed, ctx, cdp, net, overlay, pc, chaos_page, cur,
           invoked, calls, result, acts, budget, twin, batch >>

Args == {"a1", "a2"}

RealOutcomes ==
    { [outcome |-> "return", value |-> "v1"],
      [outcome |-> "raise", value |-> "TimeoutError"] }

Has(exps, name) == \E i \in 1..Len(exps) : exps[i].name = name

\* Outcomes of the external calls one operation may make (TRUE: the call
\* succeeds): the real operation, page.evaluate, the three CDP sends and
\* time.sleep.  A call no experiment of the list makes has no outcome to
\* choose.  No wait is interrupted.
Envs(exps, held) ==
    LET sends == IF \E i \in 1..Len(exps) : held[i] THEN BOOLEAN ELSE {TRUE}
    IN  [real : RealOutcomes,
         evaluate : IF Has(exps, "modal_overlay") THEN BOOLEAN ELSE {TRUE},
         offline : sends, restore : sends, throttle : sends,
         sleep : {TRUE}]

StartEnvs == [new_cdp_session : BOOLEAN, enable : BOOLEAN]

\* ChaosContext(random.Random(seed))
ChaosContext(s) == [rng |-> SeedState(s), draws |-> 0, events |-> << >>]

World ==
    [rng |-> ctx.rng, draws |-> ctx.draws, events |-> ctx.events, cdp |-> cdp,
     net |-> net, overlay |-> overlay, calls |-> << >>, exc |-> "none", ret |-> "-"]

NoCdp(exps) == [i \in 1..Len(exps) |-> FALSE]

NewWorld(exps, s) ==
    [rng |-> SeedState(s), draws |-> 0, events |-> << >>, cdp |-> NoCdp(exps),
     net |-> NormalNet, overlay |-> 0, calls |-> << >>, exc |-> "none", ret |-> "-"]

\* The state after ChaosController(exps, seed) in run_once, for a bot that
\* performs n operations.
\* No batch: a single run_once.
NoBatch == [runs |-> 0]

ConstructedSeeded(exps, n, seeds) ==
    /\ experiments = exps
    /\ budget = n
    /\ seed \in seeds
    /\ batch = NoBatch
    /\ ctx = ChaosContext(seed)
    /\ cdp = NoCdp(experiments)
    /\ net = NormalNet
    /\ overlay = 0
    /\ pc = "constructed"
    /\ chaos_page = NoHandle
    /\ cur = NoHandle
    /\ invoked = [target |-> "none"]
    /\ calls = << >>
    /\ result = [outcome |-> "none"]
    /\ acts = << >>
    /\ twin = NewWorld(experiments, seed)

Constructed(exps, n) == ConstructedSeeded(exps, n, Seeds)

Init == \E exps \in ExperimentLists : Constructed(exps, MaxActions)

\* The effect of a finished operation on the state.
Commit(w) ==
    /\ ctx' = [rng |-> w.rng, draws |-> w.draws, events |-> w.events]
    /\ cdp' = w.cdp
    /\ net' = w.net
    /\ overlay' = w.overlay
    /\ calls' = w.calls
    /\ result' = Outcome(w)

\* An operation called by the bot on handle h, and the state it is called in.
Invocation(h, action, args) ==
    [target |-> h.type, handle |-> h, action |-> action, args |-> args,
     draws |-> ctx.draws, nevents |-> Len(ctx.events), net |-> net]

Controller == [type |-> "ChaosController"]

\* run_once: controller.on_start(page, context), then PageProxy(page, ...).
OnStart ==
    /\ pc = "constructed"
    /\ \E env \in StartEnvs :
          Commit(ChaosController_on_start(World, experiments, env))
    /\ pc' = "started"
    /\ chaos_page' = PageProxy("before_action", "after_action")
    /\ invoked' = Invocation(Controller, "on_start", "-")
    /\ UNCHANGED << batch, experiments, seed, cur, acts, budget, twin >>

\* An intercepted operation of the page proxy.  The bot's expression ends
\* with it: a locator is reached again by the queries that lead to it.
PageCall(action) ==
    /\ pc = "started"
    /\ Len(acts) < budget
    /\ \E args \in Args, env \in Envs(experiments, cdp) :
          /\ Commit(Intercepted(World, chaos_page, "page", experiments, action, args, env))
          /\ invoked' = Invocation(chaos_page, action, args)
    /\ acts' = Append(acts, [action |-> action, target |-> chaos_page.type])
    /\ cur' = NoHandle
    /\ UNCHANGED << batch, experiments, seed, pc, chaos_page, budget, twin >>

PageGoto == PageCall("goto")
PageClick == PageCall("click")
PageFill == PageCall("fill")
PageType == PageCall("type")
PagePress == PageCall("press")

\* A locator query of the page proxy.
PageQuery(name) ==
    /\ pc = "started"
    /\ cur' = PageProxy_query(chaos_page)
    /\ invoked' = Invocation(chaos_page, name, "-")
    /\ calls' = << [op |-> "query", target |-> "page", action |-> name] >>
    /\ result' = [outcome |-> "return", value |-> "locator"]
    /\ UNCHANGED << batch, experiments, seed, ctx, cdp, net, overlay, pc, chaos_page, acts, budget, twin >>

PageLocator == PageQuery("locator")
PageGetByRole == PageQuery("get_by_role")
PageGetByText == PageQuery("get_by_text")
PageGetByLabel == PageQuery("get_by_label")

\* A locator query of the page proxy that the class does not define.
PageGetattr ==
    /\ pc = "started"
    /\ \E name \in OtherQueries :
          /\ cur' = PageProxy_getattr(chaos_page, name)
          /\ invoked' = Invocation(chaos_page, name, "-")
          /\ calls' = << [op |-> "query", target |-> "page", action |-> name] >>
    /\ result' = [outcome |-> "return", value |-> "locator"]
    /\ UNCHANGED << batch, experiments, seed, ctx, cdp, net, overlay, pc, chaos_page, acts, budget, twin >>

\* An intercepted operation of a locator proxy.
LocatorCall(action) ==
    /\ pc = "started"
    /\ cur.type = "LocatorProxy"
    /\ Len(acts) < budget
    /\ \E args \in Args, env \in Envs(experiments, cdp) :
          /\ Commit(Intercepted(World, cur, "locator", experiments, action, args, env))
          /\ invoked' = Invocation(cur, action, args)
    /\ acts' = Append(acts, [action |-> action, target |-> cur.type])
    /\ cur' = NoHandle
    /\ UNCHANGED << batch, experiments, seed, pc, chaos_page, budget, twin >>

LocatorClick == LocatorCall("click")
LocatorFill == LocatorCall("fill")
LocatorType == LocatorCall("type")
LocatorPress == LocatorCall("press")

\* A locator query made on a locator proxy.
LocatorGetattr ==
    /\ pc = "started"
    /\ cur.type = "LocatorProxy"
    /\ cur.depth < MaxChain
    /\ \E name \in LocatorQueries :
          /\ cur' = LocatorProxy_getattr(cur, name)
          /\ invoked' = Invocation(cur, name, "-")
          /\ calls' = << [op |-> "query", target |-> "locator", action |-> name] >>
    /\ result' = [outcome |-> "return", value |-> "locator"]
    /\ UNCHANGED << batch, experiments, seed, ctx, cdp, net, overlay, pc, chaos_page, acts, budget, twin >>

\* The bot uses a Playwright Locator it was handed unwrapped: a query on it
\* gives another Locator, an operation on it runs with no proxy around it.
RawQuery ==
    /\ pc = "started"
    /\ cur.type = "Locator"
    /\ cur.depth < MaxChain
    /\ \E name \in LocatorQueries :
          /\ cur' = Locator(cur.depth + 1, cur.listed /\ name \in ListedQueries)
          /\ invoked' = Invocation(cur, name, "-")
          /\ calls' = << [op |-> "query", target |-> "locator", action |-> name] >>
    /\ result' = [outcome |-> "return", value |-> "locator"]
    /\ UNCHANGED << batch, experiments, seed, ctx, cdp, net, overlay, pc, chaos_page, acts, budget, twin >>

RawCall ==
    /\ pc = "started"
    /\ cur.type = "Locator"
    /\ Len(acts) < budget
    /\ \E action \in Actions \ {"goto"}, args \in Args, out \in RealOutcomes :
          /\ Commit(RealCall(World, "locator", action, args, out))
          /\ invoked' = Invocation(cur, action, args)
          /\ acts' = Append(acts, [action |-> action, target |-> cur.type])
    /\ cur' = NoHandle
    /\ UNCHANGED << batch, experiments, seed, pc, chaos_page, budget, twin >>

Next ==
    \/ OnStart
    \/ PageGoto \/ PageClick \/ PageFill \/ PageType \/ PagePress
    \/ PageLocator \/ PageGetByRole \/ PageGetByText \/ PageGetByLabel
    \/ PageGetattr
    \/ LocatorClick \/ LocatorFill \/ LocatorType \/ LocatorPress
    \/ LocatorGetattr
    \/ RawQuery \/ RawCall

Spec == Init /\ [][Next]_vars

(***************************************************************************)
(* Two runs side by side: the same experiment list, the same seed, the     *)
(* same on_start call and the same operations called on the page proxy of  *)
(* each, with the same outcome of the real operation.  The first run lives *)
(* in the variables above and any call its experiments make may fail; the  *)
(* second lives in twin and is the reference: after on_start, every call   *)
(* its experiments make succeeds.                                          *)
(***************************************************************************)
Quiet(w) == [w EXCEPT !.calls = << >>]

Nominal(out) ==
    [real |-> out, evaluate |-> TRUE, offline |-> TRUE, restore |-> TRUE,
     throttle |-> TRUE, sleep |-> TRUE]

TwinWorld == [twin EXCEPT !.calls = << >>, !.exc = "none", !.ret = "-"]

DetOnStart ==
    /\ pc = "constructed"
    /\ \E env \in StartEnvs, envB \in StartEnvs :
          /\ Commit(ChaosController_on_start(World, experiments, env))
          /\ twin' = Quiet(ChaosController_on_start(TwinWorld, experiments, envB))
    /\ pc' = "started"
    /\ chaos_page' = PageProxy("before_action", "after_action")
    /\ invoked' = Invocation(Controller, "on_start", "-")
    /\ UNCHANGED << batch, experiments, seed, cur, acts, budget >>

DetCall(action) ==
    /\ pc = "started"
    /\ Len(acts) < budget
    /\ \E args \in Args, env \in Envs(experiments, cdp) :
          LET envB == Nominal(env.real) IN
          /\ Commit(Intercepted(World, chaos_page, "page", experiments, action, args, env))
          /\ twin' = Quiet(Intercepted(TwinWorld, chaos_page, "page", experiments,
                                       action, args, envB))
          /\ invoked' = Invocation(chaos_page, action, args)
    /\ acts' = Append(acts, [action |-> action, target |-> chaos_page.type])
    /\ UNCHANGED << batch, experiments, seed, pc, chaos_page, cur, budget >>

DetGoto == DetCall("goto")
DetClick == DetCall("click")
DetFill == DetCall("fill")
DetType == DetCall("type")
DetPress == DetCall("press")

NextDet == DetOnStart \/ DetGoto \/ DetClick \/ DetFill \/ DetType \/ DetPress

SpecDet == Init /\ [][NextDet]_vars

\* The scenario lists of the spec's testable properties, each a single
\* experiment that always fires, under a longer sequence of operations.
ScenarioLists ==
    { << RandomDelay(0, 0, 100) >>,
      << ModalOverlay(100, 800, 2500) >>,
      << NetworkChaos(0, 100) >> }

InitScenario == \E exps \in ScenarioLists : Constructed(exps, MaxScenarioActions)

SpecScenario == InitScenario /\ [][Next]_vars

(***************************************************************************)
(* Two runs side by side that differ in the order of the controller's      *)
(* list only: the second run, in twin, is built over the list with its two *)
(* experiments swapped, with the same seed, the same on_start outcome and  *)
(* the same operations.                                                    *)
(***************************************************************************)
Swap(exps) == << exps[2], exps[1] >>

SwapLists ==
    { << RandomDelay(50000, 600000, 100), ModalOverlay(100, 700, 2200) >>,
      << ModalOverlay(25, 700, 2200), NetworkChaos(25, 10) >> }

InitSwap == \E exps \in SwapLists : Constructed(exps, MaxActions)

SwapOnStart ==
    /\ pc = "constructed"
    /\ \E env \in StartEnvs :
          /\ Commit(ChaosController_on_start(World, experiments, env))
          /\ twin' = Quiet(ChaosController_on_start(TwinWorld, Swap(experiments), env))
    /\ pc' = "started"
    /\ chaos_page' = PageProxy("before_action", "after_action")
    /\ invoked' = Invocation(Controller, "on_start", "-")
    /\ UNCHANGED << batch, experiments, seed, cur, acts, budget >>

SwapCall(action) ==
    /\ pc = "started"
    /\ Len(acts) < budget
    /\ \E args \in Args, env \in Envs(experiments, cdp) :
          /\ Commit(Intercepted(World, chaos_page, "page", experiments, action, args, env))
          /\ twin' = Quiet(Intercepted(TwinWorld, chaos_page, "page", Swap(experiments),
                                       action, args, Nominal(env.real)))
          /\ invoked' = Invocation(chaos_page, action, args)
    /\ acts' = Append(acts, [action |-> action, target |-> chaos_page.type])
    /\ UNCHANGED << batch, experiments, seed, pc, chaos_page, cur, budget >>

SwapGoto == SwapCall("goto")
SwapClick == SwapCall("click")
SwapFill == SwapCall("fill")
SwapType == SwapCall("type")
SwapPress == SwapCall("press")

NextSwap == SwapOnStart \/ SwapGoto \/ SwapClick \/ SwapFill \/ SwapType \/ SwapPress

SpecSwap == InitSwap /\ [][NextSwap]_vars

\* The event log of a run in which every external call succeeds: the
\* controller is built over exps and seed s, on_start is called, and the
\* operations as are called in order on the page proxy.
RECURSIVE RunActions(_, _, _)
RunActions(w, exps, as) ==
    IF as = << >> THEN w
    ELSE RunActions(
            [Intercepted(w, PageProxy("before_action", "after_action"), "page", exps,
                         Head(as), "a1", Nominal([outcome |-> "return", value |-> "v1"]))
                EXCEPT !.calls = << >>, !.exc = "none", !.ret = "-"],
            exps, Tail(as))

NominalLog(exps, s, as) ==
    RunActions(
        Quiet(ChaosController_on_start(NewWorld(exps, s), exps,
                                       [new_cdp_session |-> TRUE, enable |-> TRUE])),
        exps, as).events

\* The events of one experiment, in log order.
Sampled(evs, kind) == SelectSeq(evs, LAMBDA ev : ev.kind = kind)

\* Two logs differ in what some experiment recorded.
Differ(evs1, evs2) ==
    \E kind \in {"random_delay", "modal_overlay", "network_chaos"} :
        Sampled(evs1, kind) # Sampled(evs2, kind)

(***************************************************************************)
(* Runs in which a wait may be interrupted: time.sleep either returns or   *)
(* an interrupt (KeyboardInterrupt) is raised from it.                     *)
(***************************************************************************)
InterruptLists ==
    { << NetworkChaos(0, 100) >>,
      << NetworkChaos(50, 50), RandomDelay(0, 0, 100) >> }

InterruptEnvs(exps, held) ==
    LET sends == IF \E i \in 1..Len(exps) : held[i] THEN BOOLEAN ELSE {TRUE}
    IN  [real : RealOutcomes, evaluate : {TRUE},
         offline : sends, restore : sends, throttle : sends,
         sleep : BOOLEAN]

InitInterrupt == \E exps \in InterruptLists : Constructed(exps, MaxActions)

InterruptibleCall(action) ==
    /\ pc = "started"
    /\ Len(acts) < budget
    /\ \E args \in Args, env \in InterruptEnvs(experiments, cdp) :
          /\ Commit(Intercepted(World, chaos_page, "page", experiments, action, args, env))
          /\ invoked' = Invocation(chaos_page, action, args)
    /\ acts' = Append(acts, [action |-> action, target |-> chaos_page.type])
    /\ cur' = NoHandle
    /\ UNCHANGED << batch, experiments, seed, pc, chaos_page, budget, twin >>

InterruptibleGoto == InterruptibleCall("goto")
InterruptibleClick == InterruptibleCall("click")
InterruptibleFill == InterruptibleCall("fill")
InterruptibleType == InterruptibleCall("type")
InterruptiblePress == InterruptibleCall("press")

NextInterrupt ==
    \/ OnStart
    \/ InterruptibleGoto \/ InterruptibleClick \/ InterruptibleFill
    \/ InterruptibleType \/ InterruptiblePress

SpecInterrupt == InitInterrupt /\ [][NextInterrupt]_vars

(***************************************************************************)
(* run_cmd: a batch of runs with chaos enabled.  Run i calls run_once with *)
(* seed base + i; run_once starts a browser, builds a controller over the  *)
(* runner's list, calls on_start and hands the page proxy to the bot.  It  *)
(* returns ok with the controller's event log when the bot returns, and    *)
(* not ok with an empty list of events when an exception reaches it, from  *)
(* the bot (an operation's exception it did not catch, or one of its own), *)
(* from the chaos layer or from the browser.  run_cmd appends the result   *)
(* and the events and goes on to the next run.                             *)
(***************************************************************************)
\* Runs in a batch range over 1..MaxRuns.
MaxRuns == 2
\* Number of operations the bot performs in each run of a batch.
MaxBatchActions == 1

\* The seed of every run taken to be the base seed.
RunSeed_SameForAll(base, i) == base

\* run_seed = seed + i
RunSeed(base, i) == base + i

InitBatch ==
    /\ experiments = RunnerExperiments
    /\ budget = MaxBatchActions
    /\ batch \in [runs : 1..MaxRuns, base : Seeds, i : {1},
                   results : {<< >>}, all_events : {<< >>}]
    /\ seed = RunSeed(batch.base, batch.i)
    /\ ctx = ChaosContext(seed)
    /\ cdp = NoCdp(experiments)
    /\ net = NormalNet
    /\ overlay = 0
    /\ pc = "constructed"
    /\ chaos_page = NoHandle
    /\ cur = NoHandle
    /\ invoked = [target |-> "none"]
    /\ calls = << >>
    /\ result = [outcome |-> "none"]
    /\ acts = << >>
    /\ twin = NewWorld(experiments, seed)

\* A batch that ends at the first failed run.
RunOnceReturns_StopsOnFailure(ok) ==
    /\ batch.runs > 0
    /\ pc = "started" \/ (pc = "constructed" /\ ~ok)
    /\ LET events == IF ok THEN ctx.events ELSE << >>
           res    == [idx |-> batch.i, ok |-> ok, seed |-> seed,
                      events |-> Len(events)]
       IN  batch' = [batch EXCEPT !.results = Append(@, res),
                                  !.all_events = @ \o events,
                                  !.i = @ + 1]
    /\ IF batch.i < batch.runs /\ ok
       THEN /\ seed' = batch.base + batch.i + 1
            /\ ctx' = ChaosContext(seed')
            /\ cdp' = NoCdp(experiments)
            /\ net' = NormalNet
            /\ overlay' = 0
            /\ pc' = "constructed"
            /\ chaos_page' = NoHandle
            /\ cur' = NoHandle
            /\ invoked' = [target |-> "none"]
            /\ calls' = << >>
            /\ result' = [outcome |-> "none"]
            /\ acts' = << >>
            /\ twin' = NewWorld(experiments, seed')
       ELSE /\ pc' = "done"
            /\ UNCHANGED << seed, ctx, cdp, net, overlay, chaos_page, cur,
                            invoked, calls, result, acts, twin >>
    /\ UNCHANGED << experiments, budget >>

\* run_once returns (ok, events) and run_cmd records it; unless it was the
\* last run, the loop calls run_once again: a new browser, a new controller.
RunOnceReturns(ok) ==
    /\ batch.runs > 0
    /\ pc = "started" \/ (pc = "constructed" /\ ~ok)
    /\ LET events == IF ok THEN ctx.events ELSE << >>
           res    == [idx |-> batch.i, ok |-> ok, seed |-> seed,
                      events |-> Len(events)]
       IN  batch' = [batch EXCEPT !.results = Append(@, res),
                                  !.all_events = @ \o events,
                                  !.i = @ + 1]
    /\ IF batch.i < batch.runs
       THEN /\ seed' = RunSeed(batch.base, batch.i + 1)
            /\ ctx' = ChaosContext(seed')
            /\ cdp' = NoCdp(experiments)
            /\ net' = NormalNet
            /\ overlay' = 0
            /\ pc' = "constructed"
            /\ chaos_page' = NoHandle
            /\ cur' = NoHandle
            /\ invoked' = [target |-> "none"]
            /\ calls' = << >>
            /\ result' = [outcome |-> "none"]
            /\ acts' = << >>
            /\ twin' = NewWorld(experiments, seed')
       ELSE /\ pc' = "done"
            /\ UNCHANGED << seed, ctx, cdp, net, overlay, chaos_page, cur,
                            invoked, calls, result, acts, twin >>
    /\ UNCHANGED << experiments, budget >>

RunPasses == RunOnceReturns(TRUE)
RunFails == RunOnceReturns(FALSE)

\* The run in progress, with twin following a run_once made on its own with
\* the same seed: the same operations are called on its page proxy and the
\* browser answers its calls the same way.
BatchOnStart ==
    /\ pc = "constructed"
    /\ \E env \in StartEnvs :
          /\ Commit(ChaosController_on_start(World, experiments, env))
          /\ twin' = Quiet(ChaosController_on_start(TwinWorld, experiments, env))
    /\ pc' = "started"
    /\ chaos_page' = PageProxy("before_action", "after_action")
    /\ invoked' = Invocation(Controller, "on_start", "-")
    /\ UNCHANGED << batch, experiments, seed, cur, acts, budget >>

BatchCall(action) ==
    /\ pc = "started"
    /\ Len(acts) < budget
    /\ \E args \in Args, env \in Envs(experiments, cdp) :
          /\ Commit(Intercepted(World, chaos_page, "page", experiments, action, args, env))
          /\ twin' = Quiet(Intercepted(TwinWorld, chaos_page, "page", experiments,
                                       action, args, env))
          /\ invoked' = Invocation(chaos_page, action, args)
    /\ acts' = Append(acts, [action |-> action, target |-> chaos_page.type])
    /\ UNCHANGED << batch, experiments, seed, pc, chaos_page, cur, budget >>

BatchGoto == BatchCall("goto")
BatchClick == BatchCall("click")
BatchFill == BatchCall("fill")
BatchType == BatchCall("type")
BatchPress == BatchCall("press")

NextBatch ==
    \/ BatchOnStart
    \/ BatchGoto \/ BatchClick \/ BatchFill \/ BatchType \/ BatchPress
    \/ RunPasses \/ RunFails

SpecBatch == InitBatch /\ [][NextBatch]_vars

\* The zero-delay scenario on its own, with the runner's default seed among
\* the seeds.
DefaultSeed == 42

InitDelay ==
    ConstructedSeeded(<< RandomDelay(0, 0, 100) >>, MaxScenarioActions,
                      Seeds \cup {DefaultSeed})

SpecDelay == InitDelay /\ [][Next]_vars

(***************************************************************************)
(* Reading the record of an operation.                                     *)
(***************************************************************************)
\* Positions in cs of the calls of one kind.
CallsOf(cs, op) == {k \in 1..Len(cs) : cs[k].op = op}

\* Positions in cs where an experiment's hook of the given name is entered.
Entered(cs, hook) == {k \in CallsOf(cs, "enter") : cs[k].hook = hook}

\* The position where the hook entered at k returns or raises.
ExitOf(cs, k) ==
    CHOOSE x \in (k + 1)..Len(cs) :
        /\ cs[x].op = "exit"
        /\ \A y \in (k + 1)..(x - 1) : cs[y].op # "exit"

\* The events emitted during the hook entered at k.
EmittedIn(cs, evs, k) == SubSeq(evs, cs[k].nevents + 1, cs[ExitOf(cs, k)].nevents)

\* The last operation is an intercepted operation called on a proxy.
IsHooked ==
    /\ invoked.target \in {"PageProxy", "LocatorProxy"}
    /\ invoked.action \in Actions

\* The action names of the events of one kind, in log order.
EventActions(evs, kind) ==
    LET sel == SelectSeq(evs, LAMBDA ev : ev.kind = kind)
    IN  [k \in 1..Len(sel) |-> sel[k].action]

\* The action names of the operations called through a proxy, in call order.
HookedActions ==
    LET sel == SelectSeq(acts, LAMBDA a : a.target # "Locator")
    IN  [k \in 1..Len(sel) |-> sel[k].action]

(***************************************************************************)
(* C1.  For every intercepted operation of a proxy: when the real          *)
(* operation has been invoked, whether it returned or raised, the          *)
(* after-hook is called exactly once, after it, with the action name and   *)
(* arguments the before-hook was called with; and when the real operation  *)
(* raised, the caller observes that exception.                             *)
(***************************************************************************)
C1_AfterHookOnEveryExit ==
    IsHooked =>
        \A r \in CallsOf(calls, "real") :
            /\ Cardinality(CallsOf(calls, "after_hook")) = 1
            /\ Cardinality(CallsOf(calls, "before_hook")) = 1
            /\ \A a \in CallsOf(calls, "after_hook"), b \in CallsOf(calls, "before_hook") :
                  /\ b < r /\ r < a
                  /\ calls[a].action = calls[b].action
                  /\ calls[a].args = calls[b].args
                  /\ calls[b].action = invoked.action
                  /\ calls[b].args = invoked.args
            /\ calls[r].out.outcome = "raise" => result = calls[r].out

\* An intercepted operation whose real operation raised, with the after-hook
\* called and the exception observed by the caller.
C1_Witness ==
    /\ IsHooked
    /\ \E r \in CallsOf(calls, "real") :
          /\ calls[r].out.outcome = "raise"
          /\ \E a \in CallsOf(calls, "after_hook") : a > r
    /\ result.outcome = "raise"

(***************************************************************************)
(* C2.  Interception does not alter the outcome of an operation: for every *)
(* intercepted operation called on a proxy, the real operation is invoked  *)
(* exactly once with the caller's arguments and the caller observes the    *)
(* real operation's return value or exception, whatever the experiments    *)
(* inject or fail to inject.                                               *)
(***************************************************************************)
C2_OutcomeUnaltered ==
    IsHooked =>
        /\ Cardinality(CallsOf(calls, "real")) = 1
        /\ \A r \in CallsOf(calls, "real") :
              /\ calls[r].action = invoked.action
              /\ calls[r].args = invoked.args
              /\ result = calls[r].out

(***************************************************************************)
(* C3.  Every network-control call of NetworkChaos is best-effort: when a  *)
(* send on the CDP session fails (or the session cannot be created),       *)
(* neither on_start nor before_action raises.                              *)
(***************************************************************************)
C3_NetworkControlBestEffort ==
    (\E k \in CallsOf(calls, "cdp_send") \cup CallsOf(calls, "new_cdp_session") :
        ~calls[k].ok)
    => /\ \A x \in CallsOf(calls, "exit") : calls[x].exc = "none"
       /\ result # [outcome |-> "raise", value |-> "CdpError"]

(***************************************************************************)
(* C4.  When ModalOverlay fires and page.evaluate fails, the failure is    *)
(* swallowed: ModalOverlay.before_action returns normally, the             *)
(* modal_overlay event stays in the log, the experiments after it in the   *)
(* list are run for that action, and the real operation is invoked.        *)
(***************************************************************************)
C4_ModalFailureSwallowed ==
    \A k \in CallsOf(calls, "evaluate") :
        ~calls[k].ok =>
            LET x == k + 1
                i == calls[x].exp
            IN  /\ calls[x].op = "exit"
                /\ calls[x].exc = "none"
                /\ calls[x].nevents <= Len(ctx.events)
                /\ ctx.events[calls[x].nevents].kind = "modal_overlay"
                /\ ctx.events[calls[x].nevents].duration_ms = calls[k].arg
                /\ \A j \in (i + 1)..Len(experiments) :
                      \E n \in Entered(calls, "before_action") :
                          n > x /\ calls[n].exp = j
                /\ \E r \in CallsOf(calls, "real") : r > x

(***************************************************************************)
(* C5.  Determinism: two runs with the same experiment list and seed, the  *)
(* same on_start call (the CDP session acquired in both or in neither)     *)
(* and the same sequence of intercepted operations have identical event    *)
(* logs.                                                                   *)
(***************************************************************************)
C5_Determinism ==
    (pc = "started" /\ cdp = twin.cdp) => ctx.events = twin.events

(***************************************************************************)
(* C6.  One call of NetworkChaos.before_action emits at most one event.    *)
(* When the experiment holds a CDP session, the action is goto or click    *)
(* and the probability draw r satisfies r <= offline_probability, it emits *)
(* exactly one event, of mode offline_burst, whatever throttle_probability *)
(* is.  With offline_probability 1.0 and throttle_probability 0.0 as the   *)
(* only experiment, a goto yields exactly one offline_burst event.         *)
(***************************************************************************)
C6_OfflinePriority ==
    /\ \A k \in Entered(calls, "before_action") :
          LET c   == calls[k]
              e   == experiments[c.exp]
              new == EmittedIn(calls, ctx.events, k)
          IN  e.name = "network_chaos" =>
                /\ Len(new) <= 1
                /\ \A n \in 1..Len(new) : new[n].kind = "network_chaos"
                /\ (/\ cdp[c.exp]
                    /\ c.action \in {"goto", "click"}
                    /\ AtMost(RngNext(c.rng), e.op))
                   => /\ Len(new) = 1
                      /\ new[1].mode = "offline_burst"
                      /\ new[1].action = c.action
    /\ (/\ experiments = << NetworkChaos(0, 100) >>
        /\ IsHooked /\ invoked.action = "goto" /\ cdp[1])
       => /\ Len(ctx.events) = invoked.nevents + 1
          /\ ctx.events[Len(ctx.events)].kind = "network_chaos"
          /\ ctx.events[Len(ctx.events)].mode = "offline_burst"

\* NetworkChaos with a positive throttle probability draws r <= offline
\* probability on a click and emits an offline_burst event.
C6_Witness ==
    \E k \in Entered(calls, "before_action") :
        LET c == calls[k]
            e == experiments[c.exp]
        IN  /\ e.name = "network_chaos" /\ e.tp > 0 /\ cdp[c.exp]
            /\ c.action = "click"
            /\ AtMost(RngNext(c.rng), e.op)
            /\ Len(EmittedIn(calls, ctx.events, k)) = 1
            /\ EmittedIn(calls, ctx.events, k)[1].mode = "offline_burst"

(***************************************************************************)
(* C7.  Every locator reached from the page proxy through a chain of the   *)
(* locator queries (locator, get_by_role, get_by_text, get_by_label) is a  *)
(* locator proxy carrying the page proxy's two hooks, and a terminal       *)
(* operation at the end of such a chain calls the before-hook and, once    *)
(* the real operation has been invoked, the after-hook.                    *)
(***************************************************************************)
C7_EveryLocatorWrapped ==
    /\ (cur.type # "none" /\ cur.listed)
       => /\ cur.type = "LocatorProxy"
          /\ cur.before = chaos_page.before
          /\ cur.after = chaos_page.after
    /\ (/\ invoked.target \in {"LocatorProxy", "Locator"}
        /\ invoked.action \in Actions
        /\ invoked.handle.listed)
       => /\ CallsOf(calls, "before_hook") # {}
          /\ CallsOf(calls, "real") # {} => CallsOf(calls, "after_hook") # {}

(***************************************************************************)
(* C8.  Chaining: a locator query on the page proxy calls neither hook and *)
(* emits no event; a click on the locator proxy it returns calls the       *)
(* before-hook exactly once and the after-hook exactly once; with          *)
(* RandomDelay(probability=1.0) as the only experiment that click yields   *)
(* exactly one random_delay event, attributed to click.                    *)
(***************************************************************************)
C8_Chaining ==
    /\ (invoked.target = "PageProxy" /\ invoked.action \in ListedQueries)
       => /\ CallsOf(calls, "before_hook") = {}
          /\ CallsOf(calls, "after_hook") = {}
          /\ Len(ctx.events) = invoked.nevents
    /\ (invoked.target = "LocatorProxy" /\ invoked.action = "click")
       => /\ Cardinality(CallsOf(calls, "before_hook")) = 1
          /\ Cardinality(CallsOf(calls, "after_hook")) = 1
          /\ experiments = << RandomDelay(0, 0, 100) >>
             => /\ Len(ctx.events) = invoked.nevents + 1
                /\ ctx.events[Len(ctx.events)].kind = "random_delay"
                /\ ctx.events[Len(ctx.events)].action = "click"

(***************************************************************************)
(* C9.  ModalOverlay scoping: with probability 1, one call of              *)
(* ModalOverlay.before_action emits exactly one modal_overlay event, for   *)
(* the action it was called with, when the action is click, fill, type or  *)
(* press, and no event otherwise; with ModalOverlay as the only            *)
(* experiment the modal_overlay events of the log are those of the         *)
(* qualifying operations in call order, and for the sequence goto, click,  *)
(* fill they are two, for click and for fill.                              *)
(***************************************************************************)
Qualifying(a) == a \in {"click", "fill", "type", "press"}

C9_ModalOverlayScoping ==
    /\ \A k \in Entered(calls, "before_action") :
          LET c   == calls[k]
              e   == experiments[c.exp]
              new == EmittedIn(calls, ctx.events, k)
          IN  (e.name = "modal_overlay" /\ e.p = 100) =>
                IF Qualifying(c.action)
                THEN /\ Len(new) = 1
                     /\ new[1].kind = "modal_overlay"
                     /\ new[1].action = c.action
                ELSE new = << >>
    /\ (Len(experiments) = 1 /\ experiments[1].name = "modal_overlay"
        /\ experiments[1].p = 100)
       => /\ EventActions(ctx.events, "modal_overlay")
               = SelectSeq(HookedActions, Qualifying)
          /\ HookedActions = << "goto", "click", "fill" >>
             => EventActions(ctx.events, "modal_overlay") = << "click", "fill" >>

\* goto, click and fill have been called in sequence through the proxies
\* with ModalOverlay(probability=1) and the log holds the two events.
C9_Witness ==
    /\ experiments = << ModalOverlay(100, 800, 2500) >>
    /\ HookedActions = << "goto", "click", "fill" >>
    /\ Len(ctx.events) = 2

(***************************************************************************)
(* C10.  on_start does not raise, and an experiment whose acquisition of   *)
(* the CDP session failed (creating the session or enabling it raised)     *)
(* holds no session afterwards.  From then on it stays without one, and    *)
(* every call of its before_action, for any action kind, emits no event,   *)
(* consumes no draw, makes no network-control call and does not raise.     *)
(***************************************************************************)
IsNetworkChaos(i) == experiments[i].name = "network_chaos"

\* A call made by the hook entered at k in cs failed.
FailedIn(cs, k) == \E y \in (k + 1)..(ExitOf(cs, k) - 1) : ~cs[y].ok

\* The hook entered at k in cs did nothing.
NoOpIn(cs, k) ==
    LET x == ExitOf(cs, k)
    IN  /\ x = k + 1
        /\ cs[x].draws = cs[k].draws
        /\ cs[x].nevents = cs[k].nevents
        /\ cs[x].exc = "none"

C10_InertAfterFailedAcquisition ==
    [][ /\ (pc = "constructed" /\ pc' = "started")
           => /\ result'.outcome # "raise"
              /\ \A k \in Entered(calls', "on_start") :
                    (IsNetworkChaos(calls'[k].exp) /\ FailedIn(calls', k))
                    => ~cdp'[calls'[k].exp]
        /\ pc = "started"
           => \A i \in 1..Len(experiments) :
                 (IsNetworkChaos(i) /\ ~cdp[i])
                 => /\ ~cdp'[i]
                    /\ \A k \in Entered(calls', "before_action") :
                          calls'[k].exp = i => NoOpIn(calls', k)
      ]_vars

\* An inert NetworkChaos has been called for a click.
C10_Witness ==
    /\ pc = "started"
    /\ \E k \in Entered(calls, "before_action") :
          /\ IsNetworkChaos(calls[k].exp)
          /\ ~cdp[calls[k].exp]
          /\ calls[k].action = "click"

(***************************************************************************)
(* C11.  With RandomDelay(min=0, max=0, probability=1.0) as the only       *)
(* experiment, the log after any sequence of n intercepted operations      *)
(* holds exactly n events, all random_delay events with delay 0, the k-th  *)
(* carrying the action name of the k-th operation, whatever the action     *)
(* kinds are; three clicks with seed 42 give three such events.            *)
(***************************************************************************)
C11_ZeroDelayEveryAction ==
    experiments = << RandomDelay(0, 0, 100) >>
    => /\ Len(ctx.events) = Len(HookedActions)
       /\ EventActions(ctx.events, "random_delay") = HookedActions
       /\ \A n \in 1..Len(ctx.events) :
             /\ ctx.events[n].kind = "random_delay"
             /\ ctx.events[n].delay_s = 0
       /\ (seed = DefaultSeed /\ HookedActions = << "click", "click", "click" >>)
          => Len(ctx.events) = 3

\* Three clicks made through the proxies with seed 42, and the three events.
C11_Witness ==
    /\ experiments = << RandomDelay(0, 0, 100) >>
    /\ seed = DefaultSeed
    /\ HookedActions = << "click", "click", "click" >>
    /\ Len(ctx.events) = 3
    /\ \A n \in 1..3 : ctx.events[n].delay_s = 0

(***************************************************************************)
(* C12.  Order sensitivity: there are a seed and a sequence of operations  *)
(* for which the run over a list of two probability-consuming experiments  *)
(* and the run over the same list with the two swapped record different    *)
(* sampled values in their event logs.                                     *)
(***************************************************************************)
C12_OrderSensitivity ==
    \E exps \in SwapLists, s \in Seeds, a \in Actions :
        Differ(NominalLog(exps, s, << a >>), NominalLog(Swap(exps), s, << a >>))

\* A click has been made in both runs, both experiments fired in both, and
\* the delay recorded by RandomDelay differs between the two orders.
C12_Witness ==
    /\ experiments = << RandomDelay(50000, 600000, 100), ModalOverlay(100, 700, 2200) >>
    /\ acts = << [action |-> "click", target |-> "PageProxy"] >>
    /\ Len(ctx.events) = 2 /\ Len(twin.events) = 2
    /\ ctx.events = NominalLog(experiments, seed, << "click" >>)
    /\ twin.events = NominalLog(Swap(experiments), seed, << "click" >>)
    /\ Sampled(ctx.events, "random_delay") # Sampled(twin.events, "random_delay")

(***************************************************************************)
(* C13.  Throttle unit conversion: the download and upload throughput sent *)
(* to the CDP session (and in force once the send succeeds) are the kbps   *)
(* values of the throttle event times 1024 divided by 8, and the latency   *)
(* sent is the event's latency; the conversion is exact for every kbps     *)
(* value of the configured ranges, and 800 kbps gives 102400 bytes/sec.    *)
(***************************************************************************)
\* The kbps values the default configuration can sample.
KbpsRange ==
    LET e == NetworkChaos(25, 10)
    IN  (e.down_min..e.down_max) \cup (e.up_min..e.up_max)

C13_ConversionExact ==
    /\ \A kbps \in KbpsRange : KbpsToBps(kbps) * 8 = kbps * 1024
    /\ KbpsToBps(800) = 102400

C13_ThrottleUnits ==
    /\ C13_ConversionExact
    /\ \A k \in CallsOf(calls, "cdp_send") :
          calls[k].what = "throttle" =>
            LET ev == ctx.events[calls[ExitOf(calls, k)].nevents]
                c  == calls[k].cond
            IN  /\ ev.kind = "network_chaos" /\ ev.mode = "throttle"
                /\ c.down * 8 = ev.down_kbps * 1024
                /\ c.up * 8 = ev.up_kbps * 1024
                /\ c.latency = ev.latency_ms
                /\ ~c.offline
                /\ (calls[k].ok /\ \A y \in CallsOf(calls, "cdp_send") : y <= k)
                   => net = c

\* A throttle has been applied and is in force.
C13_Witness ==
    /\ \E k \in CallsOf(calls, "cdp_send") :
          /\ calls[k].what = "throttle" /\ calls[k].ok
          /\ net = calls[k].cond
    /\ net.down > 0 /\ net.up > 0 /\ net.latency > 0
    /\ net.down = 128 * ctx.events[Len(ctx.events)].down_kbps

(***************************************************************************)
(* C14.  Each of ChaosController.on_start, before_action and after_action  *)
(* calls the corresponding hook of every experiment of the list exactly    *)
(* once, in list order, with the action name and arguments it was called   *)
(* with; no experiment is skipped because of what an earlier one did.      *)
(***************************************************************************)
\* The hook of every experiment is entered exactly once, in list order.
FansOut(cs, hook, n) ==
    /\ \A i \in 1..n : Cardinality({k \in Entered(cs, hook) : cs[k].exp = i}) = 1
    /\ \A k1, k2 \in Entered(cs, hook) : k1 < k2 => cs[k1].exp < cs[k2].exp

C14_FanOut ==
    /\ invoked.target = "ChaosController"
       => FansOut(calls, "on_start", Len(experiments))
    /\ CallsOf(calls, "before_hook") # {}
       => /\ FansOut(calls, "before_action", Len(experiments))
          /\ \A k \in Entered(calls, "before_action") :
                calls[k].action = invoked.action /\ calls[k].args = invoked.args
    /\ CallsOf(calls, "after_hook") # {}
       => /\ FansOut(calls, "after_action", Len(experiments))
          /\ \A k \in Entered(calls, "after_action") :
                calls[k].action = invoked.action /\ calls[k].args = invoked.args

(***************************************************************************)
(* C15.  Guaranteed restore: whenever NetworkChaos has sent the offline    *)
(* condition, the request for the normal condition (offline=false, no      *)
(* throttling) is sent before its before_action exits, whether the wait    *)
(* completed, the wait was interrupted or the offline send failed.  When   *)
(* every restore request succeeds, the network is not offline at the       *)
(* moment the real operation is invoked, nor after the operation.          *)
(***************************************************************************)
\* The sends of a network condition among the calls cs.
NetSends(cs) == {k \in CallsOf(cs, "cdp_send") : cs[k].what # "Network.enable"}

\* The network condition in force just before call k of cs, net0 being the
\* condition in force before the first call.
NetAt(cs, k, net0) ==
    LET done == {y \in NetSends(cs) : y < k /\ cs[y].ok}
    IN  IF done = {} THEN net0
        ELSE cs[CHOOSE y \in done : \A z \in done : z <= y].cond

C15_GuaranteedRestore ==
    /\ \A k \in NetSends(calls) :
          calls[k].what = "offline" =>
            \E r \in NetSends(calls) :
                /\ k < r /\ r < ExitOf(calls, k)
                /\ calls[r].what = "restore"
                /\ calls[r].cond = NormalNet
                /\ \A y \in (k + 1)..(r - 1) : calls[y].op = "sleep"
    /\ (/\ invoked.target # "none"
        /\ ~invoked.net.offline
        /\ \A r \in NetSends(calls) : calls[r].what = "restore" => calls[r].ok)
       => /\ ~net.offline
          /\ \A r \in CallsOf(calls, "real") : ~NetAt(calls, r, invoked.net).offline

\* The wait of an offline burst was interrupted; the restore was sent and
\* succeeded, and the interrupt reaches the caller with the network normal.
C15_Witness ==
    /\ \E k \in CallsOf(calls, "sleep") :
          /\ ~calls[k].ok
          /\ calls[k - 1].op = "cdp_send" /\ calls[k - 1].what = "offline" /\ calls[k - 1].ok
          /\ calls[k + 1].op = "cdp_send" /\ calls[k + 1].what = "restore" /\ calls[k + 1].ok
    /\ result = [outcome |-> "raise", value |-> "KeyboardInterrupt"]
    /\ net = NormalNet

(***************************************************************************)
(* C16.  A throttled condition applied by NetworkChaos stays in force: it  *)
(* is the condition under which the operation it was applied before runs,  *)
(* and every later operation for which no network condition is sent leaves *)
(* it as it was.  Only a later send replaces it: a later throttle with its *)
(* own values, and a later offline burst, once its restore succeeds, with  *)
(* the normal unthrottled condition rather than the earlier throttle.      *)
(***************************************************************************)
IsThrottled(n) == ~n.offline /\ n.down > 0 /\ n.up > 0

C16_ThrottlePersists ==
    invoked.target # "none" =>
        /\ NetSends(calls) = {} => net = invoked.net
        /\ net = NetAt(calls, Len(calls) + 1, invoked.net)
        /\ \A k \in NetSends(calls) :
              (calls[k].what = "throttle" /\ calls[k].ok)
              => /\ IsThrottled(calls[k].cond)
                 /\ net = calls[k].cond
                 /\ \A r \in CallsOf(calls, "real") :
                       r > k => NetAt(calls, r, invoked.net) = calls[k].cond
        /\ \A k \in NetSends(calls) :
              (calls[k].what = "restore" /\ calls[k].ok)
              => /\ net = NormalNet
                 /\ ~IsThrottled(net)

\* A throttle applied before an earlier operation is still in force after
\* a fill, for which NetworkChaos was called and did nothing.
C16_Witness ==
    /\ IsHooked /\ invoked.action = "fill"
    /\ IsThrottled(invoked.net)
    /\ \E k \in Entered(calls, "before_action") :
          IsNetworkChaos(calls[k].exp) /\ cdp[calls[k].exp]
    /\ CallsOf(calls, "real") # {}
    /\ net = invoked.net

(***************************************************************************)
(* C17.  The event log is append-only: across every call of on_start, of   *)
(* an intercepted operation or of a query, the log before the call is a    *)
(* prefix of the log after it; within the call the length of the log never *)
(* decreases from one hook to the next; and every hook that emits adds     *)
(* exactly one event, at the end, even when an equal event is already in   *)
(* the log.                                                                *)
(***************************************************************************)
IsPrefix(s1, s2) == Len(s1) <= Len(s2) /\ SubSeq(s2, 1, Len(s1)) = s1

\* The hook entered at k in cs sampled a value after its probability draw,
\* which every experiment does exactly when it emits.
Fired(cs, k) == cs[ExitOf(cs, k)].draws >= cs[k].draws + 2

C17_AppendOnly ==
    [][ /\ IsPrefix(ctx.events, ctx.events')
        /\ \A k \in CallsOf(calls', "enter") :
              LET x == ExitOf(calls', k)
              IN  /\ Len(ctx.events) <= calls'[k].nevents
                  /\ calls'[k].nevents <= calls'[x].nevents
                  /\ calls'[x].nevents <= Len(ctx.events')
                  /\ \A k2 \in CallsOf(calls', "enter") :
                        x < k2 => calls'[x].nevents <= calls'[k2].nevents
                  /\ calls'[x].nevents - calls'[k].nevents
                        = IF Fired(calls', k) THEN 1 ELSE 0
                  /\ Fired(calls', k)
                     => ctx.events'[calls'[x].nevents].kind
                          = experiments[calls'[k].exp].name
      ]_vars

\* The log holds two equal events, emitted for two clicks.
C17_Witness ==
    /\ Len(ctx.events) = 2
    /\ ctx.events[1] = ctx.events[2]
    /\ ctx.events[1].action = "click"
    /\ Len(acts) = 2

(***************************************************************************)
(* C19.  An experiment that does not apply to an action consumes nothing:  *)
(* ModalOverlay.before_action for an action other than click, fill, type,  *)
(* press and NetworkChaos.before_action for an action other than goto,     *)
(* click make no draw, emit no event, make no external call (so the        *)
(* network condition is as it was) and do not raise; the experiment after  *)
(* them in the list is entered at the stream state they were entered at.   *)
(***************************************************************************)
NotApplying(e, action) ==
    \/ e.name = "modal_overlay" /\ action \notin {"click", "fill", "type", "press"}
    \/ e.name = "network_chaos" /\ action \notin {"goto", "click"}

C19_NonApplyingConsumesNothing ==
    \A k \in Entered(calls, "before_action") :
        NotApplying(experiments[calls[k].exp], calls[k].action) =>
            /\ NoOpIn(calls, k)
            /\ \A k2 \in Entered(calls, "before_action") :
                  calls[k2].exp = calls[k].exp + 1
                  => /\ calls[k2].rng = calls[k].rng
                     /\ calls[k2].draws = calls[k].draws
                     /\ calls[k2].nevents = calls[k].nevents
            /\ calls[k].exp = Len(experiments)
               => /\ ctx.draws = calls[k].draws
                  /\ ctx.rng = calls[k].rng
                  /\ net = invoked.net \/ NetSends(calls) # {}

\* NetworkChaos, holding a CDP session, was called for a fill and the
\* experiment after it was entered at the same stream state.
C19_Witness ==
    \E k, k2 \in Entered(calls, "before_action") :
        /\ IsNetworkChaos(calls[k].exp) /\ cdp[calls[k].exp]
        /\ calls[k].action = "fill"
        /\ calls[k2].exp = calls[k].exp + 1
        /\ calls[k2].rng = calls[k].rng

(***************************************************************************)
(* C20.  Event order follows call order.  The events an intercepted        *)
(* operation adds come after all events of the operations before it and   *)
(* carry its action name; each is emitted by the before_action hook of one *)
(* experiment, at most one per experiment and in list order; and all of    *)
(* them are in the log before the real operation is invoked, the           *)
(* after_action hooks emitting nothing.                                    *)
(***************************************************************************)
\* The hooks entered in cs during which the n-th entry of the log was added.
EmittersOf(cs, n) ==
    {k \in CallsOf(cs, "enter") : cs[k].nevents < n /\ n <= cs[ExitOf(cs, k)].nevents}

C20_EventOrder ==
    [][ LET old == Len(ctx.events)
            new == (old + 1)..Len(ctx.events')
        IN  /\ IsPrefix(ctx.events, ctx.events')
            /\ \A n \in new :
                  /\ ctx.events'[n].action = invoked'.action
                  /\ Cardinality(EmittersOf(calls', n)) = 1
                  /\ \A k \in EmittersOf(calls', n) :
                        /\ calls'[k].hook = "before_action"
                        /\ ctx.events'[n].kind = experiments[calls'[k].exp].name
                        /\ \A r \in CallsOf(calls', "real") : k < r
            /\ \A n1, n2 \in new :
                  n1 < n2 =>
                    \A k1 \in EmittersOf(calls', n1), k2 \in EmittersOf(calls', n2) :
                        calls'[k1].exp < calls'[k2].exp
            /\ \A k \in Entered(calls', "after_action") :
                  /\ calls'[k].nevents = Len(ctx.events')
                  /\ calls'[ExitOf(calls', k)].nevents = Len(ctx.events')
      ]_vars

\* A click for which two experiments emitted, in list order, before the
\* real operation, after an earlier operation that had emitted too.
C20_Witness ==
    /\ IsHooked /\ invoked.action = "click"
    /\ invoked.nevents > 0
    /\ Len(ctx.events) = invoked.nevents + 2
    /\ Len(experiments) = 2
    /\ ctx.events[invoked.nevents + 1].kind = experiments[1].name
    /\ ctx.events[invoked.nevents + 2].kind = experiments[2].name
    /\ CallsOf(calls, "real") # {}

(***************************************************************************)
(* C18.  In a batch, run i is made with a controller and a context of its  *)
(* own, seeded with base_seed + i, so distinct runs have distinct seeds;   *)
(* nothing of the chaos state of an earlier run is visible in it: it       *)
(* starts with an empty log, a stream at its seed and experiments holding  *)
(* no CDP session, and throughout the run the stream state is that of the  *)
(* seed base_seed + i after the draws made in this run, and its log, its   *)
(* stream and its CDP handles are those of a run made on its own with seed *)
(* base_seed + i and the same operations.                                  *)
(***************************************************************************)
\* The state of the stream seeded with s after n draws.
RECURSIVE RngAfter(_, _)
RngAfter(s, n) == IF n = 0 THEN SeedState(s) ELSE RngNext(RngAfter(s, n - 1))

C18_RunIsolation ==
    /\ batch.i <= batch.runs
       => /\ seed = batch.base + batch.i
          /\ ctx.rng = RngAfter(batch.base + batch.i, ctx.draws)
          /\ ctx.events = twin.events
          /\ ctx.rng = twin.rng /\ ctx.draws = twin.draws
          /\ cdp = twin.cdp
          /\ Len(ctx.events) <= Len(experiments) * Len(acts)
          /\ pc = "constructed"
             => /\ ctx = ChaosContext(batch.base + batch.i)
                /\ cdp = NoCdp(experiments)
                /\ net = NormalNet
                /\ acts = << >>
    /\ \A j \in 1..Len(batch.results) :
          /\ batch.results[j].idx = j
          /\ batch.results[j].seed = batch.base + j
          /\ \A j2 \in 1..Len(batch.results) :
                j2 # j => batch.results[j2].seed # batch.results[j].seed

\* The second run of a batch is under way, after a first run that drew
\* from its stream, logged events and passed; the second run has drawn from
\* its own stream.
C18_Witness ==
    /\ batch.runs = 2 /\ batch.i = 2
    /\ batch.results[1].ok /\ batch.results[1].events > 0
    /\ pc = "started"
    /\ seed = batch.base + 2
    /\ ctx.draws > 0
    /\ Len(ctx.events) > 0

(***************************************************************************)
(* C21.  When the before-hook of an intercepted operation of a page proxy  *)
(* or of a locator proxy raises, the real operation is not invoked, the    *)
(* after-hook is not called (no experiment's after_action runs) and the    *)
(* caller observes the before-hook's exception.                            *)
(***************************************************************************)
C21_BeforeHookFailure ==
    IsHooked =>
        \A x \in CallsOf(calls, "exit") :
            (calls[x].hook = "before_action" /\ calls[x].exc # "none")
            => /\ CallsOf(calls, "real") = {}
               /\ CallsOf(calls, "after_hook") = {}
               /\ Entered(calls, "after_action") = {}
               /\ x = Len(calls)
               /\ result = [outcome |-> "raise", value |-> calls[x].exc]

\* A click on a locator proxy whose before-hook raised: nothing was called
\* after it and the caller observes the exception.
C21_Witness ==
    /\ invoked.target = "LocatorProxy" /\ invoked.action = "click"
    /\ \E x \in CallsOf(calls, "exit") :
          calls[x].hook = "before_action" /\ calls[x].exc # "none"
    /\ CallsOf(calls, "real") = {}
    /\ result.outcome = "raise"

(***************************************************************************)
(* C22.  The batch runner makes exactly `runs` runs, in index order        *)
(* 1..runs, whatever their outcomes: a run that ends with an exception is  *)
(* recorded as failed and the next run is started; the batch is over only  *)
(* when `runs` results are recorded, and then passed + failed = runs.  A   *)
(* failed run adds no event to the batch's events, whatever its log held;  *)
(* a passed run adds its log.                                              *)
(***************************************************************************)
Passed(results) == Len(SelectSeq(results, LAMBDA r : r.ok))

Failed(results) == Len(SelectSeq(results, LAMBDA r : ~r.ok))

C22_BatchRunsAll ==
    [][ /\ Len(batch.results) = batch.i - 1
        /\ batch.i <= batch.runs + 1
        /\ \A j \in 1..Len(batch.results) : batch.results[j].idx = j
        /\ (pc = "done") = (Len(batch.results) = batch.runs)
        /\ pc = "done" => Passed(batch.results) + Failed(batch.results) = batch.runs
        /\ batch' # batch
           => LET r == batch'.results[Len(batch'.results)]
              IN  /\ batch'.results = Append(batch.results, r)
                  /\ r.idx = batch.i
                  /\ r.ok => batch'.all_events = batch.all_events \o ctx.events
                  /\ ~r.ok => /\ batch'.all_events = batch.all_events
                              /\ r.events = 0
                  /\ IF batch.i < batch.runs
                     THEN /\ pc' = "constructed"
                          /\ batch'.i = batch.i + 1
                          /\ ctx'.events = << >>
                     ELSE pc' = "done"
      ]_vars

\* A batch of two runs is over: the first run failed, the second passed,
\* and the batch's events are those of the second run alone.
C22_Witness ==
    /\ pc = "done"
    /\ batch.runs = 2
    /\ Len(batch.results) = 2
    /\ ~batch.results[1].ok /\ batch.results[1].events = 0
    /\ batch.results[2].ok /\ batch.results[2].events > 0
    /\ batch.all_events = ctx.events
    /\ Passed(batch.results) = 1 /\ Failed(batch.results) = 1

====
